---- MODULE Spec2Model ----
(***************************************************************************)
(* FMZB Hub: the users blueprint (register, login, profile, deactivate,    *)
(* logout) of Project/FinalProject/app/users.py and the product repository *)
(* of app/product_model.py, as state machines over the database tables,    *)
(* the browser sessions and the last response.                             *)
(*                                                                         *)
(* Text is a sequence of one-character strings, so that strip(), lower(),  *)
(* the regular expressions and SQL LIKE are computed character by          *)
(* character.  Times are integers (NOW() reads the variable now).          *)
(***************************************************************************)
EXTENDS Integers, Sequences, FiniteSets, TLC

VARIABLES
  UserProfile,      \* table UserProfile: sequence of rows, in insertion order
  UserActivityLog,  \* table UserActivityLog: sequence of rows, in insertion order
  session,          \* session[s]: the Flask session dict of browser s
  resp,             \* the last response: flashed messages and redirect target
  now,              \* the database clock read by NOW()
  product,          \* table product: sequence of rows, in insertion order
  orders,           \* table orders (a sequence of rows), when it exists
  order_items,      \* table order_items (a sequence of rows), when it exists
  tables,           \* the table names present in information_schema.tables
  ret,              \* the last value returned (or raised) by a repository call
  conn,             \* the connection of the last operation, as the operation left
                    \* it: "none" (none was opened), "closed" or "open"
  req               \* req[p]: the register request p in progress in a worker of its
                    \* own: its form, its position in register and its locals

vars == <<UserProfile, UserActivityLog, session, resp, now,
          product, orders, order_items, tables, ret, conn, req>>

userVars == <<UserProfile, UserActivityLog, session, resp>>
prodVars == <<product, orders, order_items, tables, ret>>

----------------------------------------------------------------------------
(* Bounds *)

MaxTime == 1        \* the clock stops advancing at MaxTime
MaxLog == 3         \* no request appends to UserActivityLog beyond MaxLog rows a day
MaxProducts == 2    \* insert_product is not called beyond MaxProducts rows
MaxCore == 3        \* passwords: at most MaxCore freely chosen characters ...
MaxPad == 5         \* ... followed by at most MaxPad repetitions of one character

----------------------------------------------------------------------------
(* Text *)

UpperSeq == <<"A","B","C","D","E","F","G","H","I","J","K","L","M",
              "N","O","P","Q","R","S","T","U","V","W","X","Y","Z">>
LowerSeq == <<"a","b","c","d","e","f","g","h","i","j","k","l","m",
              "n","o","p","q","r","s","t","u","v","w","x","y","z">>
UpperChars == {UpperSeq[i] : i \in 1..26}
LowerChars == {LowerSeq[i] : i \in 1..26}
DigitChars == {"0","1","2","3","4","5","6","7","8","9"}
Whitespace == {" ", "\t", "\n", "\r"}

\* str.lower() of one character
LowerChar(c) ==
  IF c \in UpperChars
    THEN LowerSeq[CHOOSE i \in 1..26 : UpperSeq[i] = c]
    ELSE c

\* str.lower()
lower(str) == [i \in 1..Len(str) |-> LowerChar(str[i])]

\* str.strip(): drop leading and trailing whitespace
strip(str) ==
  LET keep == {i \in 1..Len(str) : str[i] \notin Whitespace}
  IN IF keep = {} THEN <<>>
     ELSE LET lo == CHOOSE i \in keep : \A j \in keep : i <= j
              hi == CHOOSE i \in keep : \A j \in keep : i >= j
          IN SubSeq(str, lo, hi)

\* request.form.get('email', '').strip().lower()
NormalizeEmail_NoLower(raw) == strip(raw)
NormalizeEmail(raw) == lower(strip(raw))

\* Python None / SQL NULL in a text column
None == <<"<None>">>
\* SQL NULL in a time column
NullTime == -1

\* request.form.get(k, '').strip() or None
StripOrNone(str) == IF strip(str) = <<>> THEN None ELSE strip(str)

----------------------------------------------------------------------------
(* Validators *)

EmailLocalChars == UpperChars \cup LowerChars \cup DigitChars
                     \cup {".", "_", "%", "+", "-"}
EmailDomainChars == UpperChars \cup LowerChars \cup DigitChars \cup {".", "-"}

\* re.match(r'^[a-zA-Z0-9._%+-]+@[a-zA-Z0-9.-]+\.[a-zA-Z]{2,}$', email)
is_valid_email(email) ==
  \E at \in 1..Len(email), dot \in 1..Len(email) :
    /\ at > 1
    /\ \A i \in 1..(at - 1) : email[i] \in EmailLocalChars
    /\ email[at] = "@"
    /\ dot > at + 1
    /\ \A i \in (at + 1)..(dot - 1) : email[i] \in EmailDomainChars
    /\ email[dot] = "."
    /\ Len(email) - dot >= 2
    /\ \A i \in (dot + 1)..Len(email) : email[i] \in UpperChars \cup LowerChars

SpecialChars == {"!", "@", "#", "$", "%", "^", "&", "*", "(", ")", ",", ".",
                 "?", "\"", ":", "{", "}", "|", "<", ">"}

HasChar(str, class) == \E i \in 1..Len(str) : str[i] \in class

\* is_strong_password with the digit and special-character tests exchanged
is_strong_password_SpecialFirst(password) ==
  IF Len(password) < 8 THEN <<FALSE, "Password must be at least 8 characters">>
  ELSE IF ~HasChar(password, UpperChars) THEN <<FALSE, "Must contain uppercase letter">>
  ELSE IF ~HasChar(password, LowerChars) THEN <<FALSE, "Must contain lowercase letter">>
  ELSE IF ~HasChar(password, SpecialChars) THEN <<FALSE, "Must contain special character">>
  ELSE IF ~HasChar(password, DigitChars) THEN <<FALSE, "Must contain digit">>
  ELSE <<TRUE, "Valid">>

\* is_strong_password: <<ok, message>>, the first unmet rule decides
is_strong_password(password) ==
  IF Len(password) < 8 THEN <<FALSE, "Password must be at least 8 characters">>
  ELSE IF ~HasChar(password, UpperChars) THEN <<FALSE, "Must contain uppercase letter">>
  ELSE IF ~HasChar(password, LowerChars) THEN <<FALSE, "Must contain lowercase letter">>
  ELSE IF ~HasChar(password, DigitChars) THEN <<FALSE, "Must contain digit">>
  ELSE IF ~HasChar(password, SpecialChars) THEN <<FALSE, "Must contain special character">>
  ELSE <<TRUE, "Valid">>

\* werkzeug generate_password_hash / check_password_hash: a one-way hash that
\* check_password_hash accepts for the password it was made from and no other
generate_password_hash(password) == <<"hash">> \o password
check_password_hash(pwhash, password) == pwhash = <<"hash">> \o password

----------------------------------------------------------------------------
(* Requests: form contents, browsers, injected database faults *)

Browsers == {1, 2}

\* A request names the database step of the handler that fails: "none",
\* "connect" (get_db returns None) or "sN", the N-th cursor.execute reached.

E_a  == <<"a","@","b",".","i","o">>
E_A  == <<"A","@","b",".","I","o">>
E_sa == <<" ","a","@","B",".","i","o"," ">>
E_z  == <<"z","@","b",".","i","o">>
E_bad == <<"a","b",".","i","o">>

P_1 == <<"A","b","c","d","e","f","1","!">>
P_2 == <<"Z","y","x","w","v","u","2","?">>
P_short == <<"A","b","1","!">>
P_nospecial == <<"A","b","c","d","e","f","g","1">>

T_customer == <<"c","u","s","t","o","m","e","r">>
T_merchant == <<"m","e","r","c","h","a","n","t">>
T_admin == <<"a","d","m","i","n">>

N_Ann == <<"A","n","n">>
N_Lee == <<"L","e","e">>
N_Bo == <<"B","o">>
N_blank == <<" ">>
V_phone == <<"5","5","5">>
Empty == <<>>

\* A registration form that passes every validation rule
RegBase == [email |-> E_a, user_type |-> T_customer, first_name |-> N_Ann,
            last_name |-> N_Lee, password |-> P_1, confirm_password |-> P_1,
            phone |-> Empty, website |-> Empty, business_name |-> Empty]

ValidRegisterForms ==
  { [RegBase EXCEPT !.email = e] : e \in {E_a, E_A, E_sa} }

InvalidRegisterForms ==
  { [RegBase EXCEPT !.email = e] : e \in {E_bad, Empty} }
  \cup { [RegBase EXCEPT !.user_type = T_admin],
         [RegBase EXCEPT !.first_name = N_blank],
         [RegBase EXCEPT !.last_name = Empty],
         [RegBase EXCEPT !.confirm_password = P_2],
         [RegBase EXCEPT !.password = P_short, !.confirm_password = P_short],
         [RegBase EXCEPT !.password = P_nospecial,
                         !.confirm_password = P_nospecial] }

\* <<form, fault>>: a fault only matters to a form that reaches the database
RegisterRequests ==
  (ValidRegisterForms \X {"none"})
    \cup ({RegBase} \X {"connect", "s1", "s2", "s3"})
    \cup (InvalidRegisterForms \X {"none"})

\* <<email, password, fault>>
LoginRequests ==
  ({E_a, E_sa, E_z} \X {P_1, P_2} \X {"none"})
    \cup ({E_a} \X {P_1} \X {"connect", "s1", "s2", "s3"})
    \cup ({E_a} \X {P_2} \X {"connect", "s1"})
    \cup ({E_z} \X {P_1} \X {"connect", "s1"})

----------------------------------------------------------------------------
(* Responses and sessions *)

\* the rows of the log dated today are at most MaxLog
LogRoom(log) ==
  IF Len(log) <= MaxLog THEN TRUE
  ELSE Cardinality({i \in 1..Len(log) : log[i].ActivityDate = now}) <= MaxLog

\* flash(message, category); arg is the interpolated part of an f-string
Msg(text, category) == [text |-> text, arg |-> <<>>, category |-> category]
MsgArg(text, arg, category) == [text |-> text, arg |-> arg, category |-> category]

\* flash(f'Error: {str(e)}', 'danger') in the handlers' except clauses
ErrorMsg == Msg("Error: <exception>", "danger")

\* the handler returned redirect(url_for(to)) after flashing msgs
Response(msgs, to) == [flash |-> msgs, to |-> to]

\* an empty session dict; session.clear() leaves it
EmptySession == [k \in {} |-> <<>>]

\* 'user_email' in session
LoggedIn_ActiveAccount(s) == "user_email" \in DOMAIN session[s] /\ \E i \in 1..Len(UserProfile) : UserProfile[i].Email = session[s]["user_email"] /\ UserProfile[i].Status = "active"
LoggedIn(s) == "user_email" \in DOMAIN session[s]

\* login_required: the redirect of a request without user_email
LoginRequiredResponse == Response(<<Msg("Please log in first.", "warning")>>, "users.login")

----------------------------------------------------------------------------
(* SQL statements on UserProfile and UserActivityLog *)

\* SELECT ... FROM UserProfile WHERE Email = %s : the matching row numbers
SelectUser(tbl, email) == {i \in 1..Len(tbl) : tbl[i].Email = email}

\* cursor.fetchone() of that SELECT: the first matching row (callers test
\* SelectUser(tbl, email) # {} for "a row was fetched")
FetchUser(tbl, email) ==
  tbl[CHOOSE i \in SelectUser(tbl, email) : \A j \in SelectUser(tbl, email) : i <= j]

\* INSERT INTO UserProfile (...) VALUES (..., 'active', NOW())
InsertUser(tbl, email, user_type, first_name, last_name, hashed, phone, website, business_name, t) ==
  Append(tbl, [Email |-> email, UserType |-> user_type,
               ContactFirstName |-> first_name, ContactLastName |-> last_name,
               UPassword |-> hashed, Phone |-> phone, Website |-> website,
               BusinessName |-> business_name, Status |-> "active",
               TimeOfCreation |-> t, LastLogin |-> NullTime])

\* an INSERT that writes over the newest row of the log
InsertLog_ReplaceLast(log, email, type, t) ==
  IF log = <<>> THEN <<>>
  ELSE [log EXCEPT ![Len(log)] = [Email |-> email, ActivityType |-> type,
                                  ActivityDescription |-> None, ActivityDate |-> t]]

\* INSERT INTO UserActivityLog (Email, ActivityType, ActivityDate) VALUES (%s, type, NOW())
InsertLog(log, email, type, t) ==
  Append(log, [Email |-> email, ActivityType |-> type,
               ActivityDescription |-> None, ActivityDate |-> t])

\* UPDATE UserProfile SET LastLogin = NOW() WHERE Email = %s
UpdateLastLogin(tbl, email, t) ==
  [i \in 1..Len(tbl) |->
     IF tbl[i].Email = email THEN [tbl[i] EXCEPT !.LastLogin = t] ELSE tbl[i]]

\* UPDATE UserProfile SET Status = 'disabled' WHERE Email = %s
UpdateStatusDisabled_Toggle(tbl, email) ==
  [i \in 1..Len(tbl) |->
     IF tbl[i].Email = email
       THEN [tbl[i] EXCEPT !.Status = IF @ = "active" THEN "disabled" ELSE "active"]
       ELSE tbl[i]]
UpdateStatusDisabled_Noop(tbl, email) == tbl
UpdateStatusDisabled(tbl, email) ==
  [i \in 1..Len(tbl) |->
     IF tbl[i].Email = email THEN [tbl[i] EXCEPT !.Status = "disabled"] ELSE tbl[i]]

\* UPDATE UserProfile SET <updates> WHERE Email = %s ; updates maps the
\* columns named in the SET list to their new values
UpdateUserFields(tbl, email, updates) ==
  [i \in 1..Len(tbl) |->
     IF tbl[i].Email = email
       THEN [c \in DOMAIN tbl[i] |->
               IF c \in DOMAIN updates THEN updates[c] ELSE tbl[i][c]]
       ELSE tbl[i]]

----------------------------------------------------------------------------
(* POST /users/register *)

\* lines 81-89: the values register reads from the form
RegisterFields(form) ==
  [email |-> NormalizeEmail(form.email),
   user_type |-> strip(form.user_type),
   first_name |-> strip(form.first_name),
   last_name |-> strip(form.last_name),
   password |-> form.password,
   confirm_password |-> form.confirm_password,
   phone |-> StripOrNone(form.phone),
   website |-> StripOrNone(form.website),
   business_name |-> StripOrNone(form.business_name)]

\* lines 92-111: the message of the first failing validation rule, or "ok"
RegisterValidation(fd) ==
  IF fd.email = <<>> \/ ~is_valid_email(fd.email) THEN "Invalid email address."
  ELSE IF fd.user_type \notin {T_customer, T_merchant} THEN "Invalid role."
  ELSE IF fd.first_name = <<>> \/ fd.last_name = <<>>
    THEN "First and last name required."
  ELSE IF fd.password # fd.confirm_password THEN "Passwords do not match."
  ELSE IF ~is_strong_password(fd.password)[1] THEN is_strong_password(fd.password)[2]
  ELSE "ok"

\* RegisterFields, RegisterValidation and the password hash of every form of
\* the model, tabulated (they depend on the form alone)
RegisterParsed ==
  [form \in ValidRegisterForms \cup InvalidRegisterForms |->
     [fields |-> RegisterFields(form),
      verdict |-> RegisterValidation(RegisterFields(form)),
      hashed |-> generate_password_hash(form.password)]]

\* The effect of one register POST on the current state: the tables and the
\* response the handler leaves.
registerResult(form, f) ==
  LET fd == RegisterParsed[form].fields
      verdict == RegisterParsed[form].verdict
      email == fd.email
      inserted == InsertUser(UserProfile, email, fd.user_type, fd.first_name,
                             fd.last_name, RegisterParsed[form].hashed,
                             fd.phone, fd.website, fd.business_name, now)
      same(r, c) == [UserProfile |-> UserProfile, UserActivityLog |-> UserActivityLog,
                  resp |-> r, conn |-> c]
      back(msg) == Response(<<Msg(msg, "danger")>>, "users.register")
  IN IF verdict # "ok" THEN same(back(verdict), "none")
     ELSE IF f = "connect" THEN same(back("Database error."), "none")
     ELSE IF f = "s1" THEN same(Response(<<ErrorMsg>>, "users.register"), "open")
     ELSE IF SelectUser(UserProfile, email) # {}
       THEN same(back("Email already registered."), "closed")
     ELSE IF f = "s2" THEN same(Response(<<ErrorMsg>>, "users.register"), "open")
     ELSE IF f = "s3"
       THEN [UserProfile |-> inserted, UserActivityLog |-> UserActivityLog,
             resp |-> Response(<<ErrorMsg>>, "users.register"), conn |-> "open"]
     ELSE [UserProfile |-> inserted,
           UserActivityLog |-> InsertLog(UserActivityLog, email, "Registered", now),
           resp |-> Response(<<Msg("Account created! Please log in.", "success")>>,
                             "users.login"),
           conn |-> "closed"]

register(form, f) ==
  LET out == registerResult(form, f)
  IN /\ LogRoom(out.UserActivityLog)
     /\ UserProfile' = out.UserProfile
     /\ UserActivityLog' = out.UserActivityLog
     /\ resp' = out.resp
     /\ conn' = out.conn
     /\ UNCHANGED <<session, now, prodVars, req>>

----------------------------------------------------------------------------
(* POST /users/login *)

\* the session dict after lines 178-181
LoginSession(old, email, user) ==
  [k \in DOMAIN old \cup {"user_email", "user_name", "user_type", "_permanent"} |->
     IF k = "user_email" THEN email
     ELSE IF k = "user_name" THEN user.ContactFirstName \o <<" ">> \o user.ContactLastName
     ELSE IF k = "user_type" THEN user.UserType
     ELSE IF k = "_permanent" THEN <<"True">>
     ELSE old[k]]

\* not user or not check_password_hash(user['UPassword'], password)
BadCredentials_NoPasswordCheck(tbl, email, password) == SelectUser(tbl, email) = {}
BadCredentials(tbl, email, password) ==
  \/ SelectUser(tbl, email) = {}
  \/ ~check_password_hash(FetchUser(tbl, email).UPassword, password)

\* user['Status'] != 'active'
NotActive_Never(user) == FALSE
NotActive(user) == user.Status # "active"

\* line 155 for every email of the model, tabulated
LoginEmail == [raw \in {E_a, E_A, E_sa, E_z} |-> NormalizeEmail(raw)]

\* The effect of one login POST of browser s on the current state.
loginResult(s, rawemail, password, f) ==
  LET email == LoginEmail[rawemail]
      user == FetchUser(UserProfile, email)
      same(r, c) == [UserProfile |-> UserProfile, UserActivityLog |-> UserActivityLog,
                  session |-> session[s], resp |-> r, conn |-> c]
      back(msg, cat) == Response(<<Msg(msg, cat)>>, "users.login")
      created == LoginSession(session[s], email, user)
  IN IF f = "connect" THEN same(back("Database error.", "danger"), "none")
     ELSE IF f = "s1" THEN same(Response(<<ErrorMsg>>, "users.login"), "open")
     ELSE IF BadCredentials(UserProfile, email, password)
       THEN same(back("Invalid email or password.", "danger"), "closed")
     ELSE IF NotActive(user) THEN same(back("Account disabled.", "warning"), "closed")
     ELSE IF f = "s2"
       THEN [UserProfile |-> UserProfile, UserActivityLog |-> UserActivityLog,
             session |-> created, resp |-> Response(<<ErrorMsg>>, "users.login"),
             conn |-> "open"]
     ELSE IF f = "s3"
       THEN [UserProfile |-> UpdateLastLogin(UserProfile, email, now),
             UserActivityLog |-> UserActivityLog,
             session |-> created, resp |-> Response(<<ErrorMsg>>, "users.login"),
             conn |-> "open"]
     ELSE [UserProfile |-> UpdateLastLogin(UserProfile, email, now),
           UserActivityLog |-> InsertLog(UserActivityLog, email, "Logged In", now),
           session |-> created,
           resp |-> Response(<<MsgArg("Welcome, !", user.ContactFirstName, "success")>>,
                             "users.dashboard"),
           conn |-> "closed"]

login(s, rawemail, password, f) ==
  LET out == loginResult(s, rawemail, password, f)
  IN /\ LogRoom(out.UserActivityLog)
     /\ UserProfile' = out.UserProfile
     /\ UserActivityLog' = out.UserActivityLog
     /\ session' = [session EXCEPT ![s] = out.session]
     /\ resp' = out.resp
     /\ conn' = out.conn
     /\ UNCHANGED <<now, prodVars, req>>

----------------------------------------------------------------------------
(* POST /users/profile *)

ProfBase == [first_name |-> Empty, last_name |-> Empty, phone |-> Empty,
             website |-> Empty, business_name |-> Empty,
             new_password |-> Empty, confirm_password |-> Empty]

ProfileForms ==
  { ProfBase,
    [ProfBase EXCEPT !.first_name = N_Bo],
    [ProfBase EXCEPT !.new_password = P_2, !.confirm_password = P_2],
    [ProfBase EXCEPT !.last_name = N_blank, !.new_password = N_blank],
    [ProfBase EXCEPT !.first_name = N_Bo, !.new_password = P_2,
                     !.confirm_password = P_1],
    [ProfBase EXCEPT !.phone = V_phone, !.new_password = P_short,
                     !.confirm_password = P_short] }

\* <<form, fault>>
ProfileRequests ==
  (ProfileForms \X {"none"})
    \cup ({[ProfBase EXCEPT !.first_name = N_Bo]} \X {"connect", "s1", "s2"})

\* the columns of the SET list built in lines 227-241, with their values
ProfileFieldUpdates(form) ==
  LET val == [ContactFirstName |-> strip(form.first_name),
              ContactLastName |-> strip(form.last_name),
              Phone |-> StripOrNone(form.phone),
              Website |-> StripOrNone(form.website),
              BusinessName |-> StripOrNone(form.business_name)]
      cols == {c \in {"ContactFirstName", "ContactLastName"} : val[c] # <<>>}
              \cup {c \in {"Phone", "Website", "BusinessName"} : val[c] # None}
  IN [c \in cols |-> val[c]]

\* the SET list with the UPassword column appended (lines 260-261)
WithPassword(updates, new_password) ==
  [c \in DOMAIN updates \cup {"UPassword"} |->
     IF c = "UPassword" THEN generate_password_hash(new_password) ELSE updates[c]]

\* lines 212-218 and 227-241, and is_strong_password(new_password), for every
\* form of the model, tabulated (they depend on the form alone)
ProfileParsed ==
  [form \in ProfileForms |->
     [fields |-> ProfileFieldUpdates(form),
      new_password |-> strip(form.new_password),
      confirm_password |-> strip(form.confirm_password),
      strong |-> is_strong_password(strip(form.new_password))]]

\* line 245: new_password != confirm_password
PasswordsDiffer_Never(new_password, confirm_password) == FALSE
PasswordsDiffer(new_password, confirm_password) == new_password # confirm_password

\* The effect of one profile POST of browser s on the current state.
profileResult(s, form, f) ==
  LET email == session[s]["user_email"]
      new_password == ProfileParsed[form].new_password
      confirm_password == ProfileParsed[form].confirm_password
      fields == ProfileParsed[form].fields
      strong == ProfileParsed[form].strong
      updates == IF new_password # <<>> THEN WithPassword(fields, new_password)
                 ELSE fields
      updated == UpdateUserFields(UserProfile, email, updates)
      same(r, c) == [UserProfile |-> UserProfile, UserActivityLog |-> UserActivityLog,
                  resp |-> r, conn |-> c]
  IN IF ~LoggedIn(s) THEN same(LoginRequiredResponse, "none")
     \* get_db() returned None: conn.cursor() raises
     ELSE IF f = "connect" THEN same(Response(<<ErrorMsg>>, "users.profile"), "none")
     \* conn.close(), flash, then cursor.execute on the closed connection raises
     ELSE IF new_password # <<>> /\ PasswordsDiffer(new_password, confirm_password)
       THEN same(Response(<<Msg("Passwords do not match.", "danger"), ErrorMsg>>,
                          "users.profile"), "closed")
     ELSE IF new_password # <<>> /\ ~strong[1]
       THEN same(Response(<<Msg(strong[2], "danger"), ErrorMsg>>, "users.profile"), "closed")
     ELSE IF DOMAIN updates = {}
       THEN same(Response(<<Msg("No changes.", "info")>>, "users.profile"), "closed")
     ELSE IF f = "s1" THEN same(Response(<<ErrorMsg>>, "users.profile"), "open")
     ELSE IF f = "s2"
       THEN [UserProfile |-> updated, UserActivityLog |-> UserActivityLog,
             resp |-> Response(<<ErrorMsg>>, "users.profile"), conn |-> "open"]
     ELSE [UserProfile |-> updated,
           UserActivityLog |-> InsertLog(UserActivityLog, email, "Profile Updated", now),
           resp |-> Response(<<Msg("Profile updated.", "success")>>, "users.profile"),
           conn |-> "closed"]

profile(s, form, f) ==
  LET out == profileResult(s, form, f)
  IN /\ LogRoom(out.UserActivityLog)
     /\ UserProfile' = out.UserProfile
     /\ UserActivityLog' = out.UserActivityLog
     /\ resp' = out.resp
     /\ conn' = out.conn
     /\ UNCHANGED <<session, now, prodVars, req>>

----------------------------------------------------------------------------
(* POST /users/deactivate *)

\* The effect of one deactivate POST of browser s on the current state.
deactivateResult(s, f) ==
  LET email == session[s]["user_email"]
      disabled == UpdateStatusDisabled(UserProfile, email)
      same(r, c) == [UserProfile |-> UserProfile, UserActivityLog |-> UserActivityLog,
                  session |-> session[s], resp |-> r, conn |-> c]
  IN IF ~LoggedIn(s) THEN same(LoginRequiredResponse, "none")
     ELSE IF f = "connect" THEN same(Response(<<ErrorMsg>>, "users.profile"), "none")
     ELSE IF f = "s1" THEN same(Response(<<ErrorMsg>>, "users.profile"), "open")
     ELSE IF f = "s2"
       THEN [UserProfile |-> disabled, UserActivityLog |-> UserActivityLog,
             session |-> session[s], resp |-> Response(<<ErrorMsg>>, "users.profile"),
             conn |-> "open"]
     ELSE [UserProfile |-> disabled,
           UserActivityLog |-> InsertLog(UserActivityLog, email, "Deactivated", now),
           session |-> EmptySession,
           resp |-> Response(<<Msg("Account deactivated.", "info")>>, "users.login"),
           conn |-> "closed"]

deactivate(s, f) ==
  LET out == deactivateResult(s, f)
  IN /\ LogRoom(out.UserActivityLog)
     /\ UserProfile' = out.UserProfile
     /\ UserActivityLog' = out.UserActivityLog
     /\ session' = [session EXCEPT ![s] = out.session]
     /\ resp' = out.resp
     /\ conn' = out.conn
     /\ UNCHANGED <<now, prodVars, req>>

----------------------------------------------------------------------------
(* POST /users/logout *)

\* lines 318-325: the audit write inside try / except: pass
LogoutAudit(log, email, f, t) ==
  IF f \in {"connect", "s1"} THEN log ELSE InsertLog(log, email, "Logged Out", t)

\* line 327: session.clear(), after the try statement whatever f was
LogoutSession_InsideTry(old, f) == IF f \in {"connect", "s1"} THEN old ELSE EmptySession
LogoutSession(old, f) == EmptySession

\* The effect of one logout POST of browser s on the current state.
logoutResult(s, f) ==
  IF ~LoggedIn(s)
    THEN [UserActivityLog |-> UserActivityLog, session |-> session[s],
          resp |-> LoginRequiredResponse, conn |-> "none"]
    ELSE [UserActivityLog |-> LogoutAudit(UserActivityLog, session[s]["user_email"], f, now),
          session |-> LogoutSession(session[s], f),
          resp |-> Response(<<Msg("Logged out.", "success")>>, "users.login"),
          \* line 323 is skipped when line 322 raises
          conn |-> IF f = "connect" THEN "none" ELSE IF f = "s1" THEN "open" ELSE "closed"]

logout(s, f) ==
  LET out == logoutResult(s, f)
  IN /\ LogRoom(out.UserActivityLog)
     /\ UserActivityLog' = out.UserActivityLog
     /\ session' = [session EXCEPT ![s] = out.session]
     /\ resp' = out.resp
     /\ conn' = out.conn
     /\ UNCHANGED <<UserProfile, now, prodVars, req>>

----------------------------------------------------------------------------
(* The clock *)

Tick ==
  /\ now < MaxTime
  /\ now' = now + 1
  /\ UNCHANGED <<userVars, prodVars, conn, req>>

----------------------------------------------------------------------------
(* The users blueprint *)

InitUsers ==
  /\ UserProfile = <<>>
  /\ UserActivityLog = <<>>
  /\ session = [s \in Browsers |-> EmptySession]
  /\ resp = Response(<<>>, "users.login")

InitProductsIdle ==
  /\ product = <<>>
  /\ orders = <<>>
  /\ order_items = <<>>
  /\ tables = {"UserProfile", "UserActivityLog", "product", "pricehistory"}
  /\ ret = [op |-> "none", kind |-> "none", rows |-> <<>>, total |-> 0, flag |-> FALSE]
  /\ conn = "none"
  /\ req = <<>>

Init ==
  /\ InitUsers
  /\ InitProductsIdle
  /\ now = 0

Next ==
  \/ \E r \in RegisterRequests : register(r[1], r[2])
  \/ \E s \in {1}, r \in LoginRequests : login(s, r[1], r[2], r[3])
  \/ \E s \in {1}, r \in ProfileRequests : profile(s, r[1], r[2])
  \/ \E s \in {1}, f \in {"none", "connect", "s1", "s2"} : deactivate(s, f)
  \/ \E s \in {1}, f \in {"none", "connect", "s1"} : logout(s, f)

Spec == Init /\ [][Next]_vars

----------------------------------------------------------------------------
(* app/product_model.py: the product repository.  Times are whole days.     *)
(* Prices are integers (Decimal values in the smallest currency unit).      *)
(* Text comparison is on an alphabet without letter-case pairs, so the      *)
(* result does not depend on the collation of the columns.                  *)

\* Python None for a number (a filter bound that is not supplied)
NoNumber == -1

\* Which database step of the repository call fails: get_db() (which raises
\* here, product_model.py:20-31) or the n-th cursor.execute that is reached.
RepoFaults == {"none", "connect", "s1", "s2", "s3"}

\* the value a repository call hands to its caller: a return value in the
\* field rows, total or flag, or an exception
Returned(op, rows, total, flag) ==
  [op |-> op, kind |-> "return", rows |-> rows, total |-> total, flag |-> flag]
\* conn = get_db() before try: ... finally: conn.close()
RepoConn(f) == IF f = "connect" THEN "none" ELSE "closed"

Raised(op) ==
  [op |-> op, kind |-> "raise", rows |-> <<>>, total |-> 0, flag |-> FALSE]

RECURSIVE Like(_, _)
\* SQL: str LIKE pat, with the wildcards % (any run of characters) and _ (any
\* one character)
Like(pat, str) ==
  IF pat = <<>> THEN str = <<>>
  ELSE IF Head(pat) = "%"
    THEN Like(Tail(pat), str) \/ (str # <<>> /\ Like(pat, Tail(str)))
  ELSE IF str = <<>> THEN FALSE
  ELSE IF Head(pat) = "_" THEN Like(Tail(pat), Tail(str))
  ELSE Head(pat) = Head(str) /\ Like(Tail(pat), Tail(str))

\* column LIKE %s with the parameter f"%{value}%"; NULL LIKE ... is not true
ColumnLike(column, value) ==
  column # None /\ Like(<<"%">> \o value \o <<"%">>, column)

\* the orders of the row numbers in S that ORDER BY allows: <<i, j>> in
\* before says that row i must come before row j; rows it does not order
\* come in any order
Orderings(S, before) ==
  {p \in [1..Cardinality(S) -> S] :
     /\ \A i, j \in 1..Cardinality(S) : p[i] = p[j] => i = j
     /\ \A i, j \in 1..Cardinality(S) : i < j => <<p[j], p[i]>> \notin before}

\* LIMIT n OFFSET k of a sequence
LimitOffset(seq, n, k) ==
  IF k >= Len(seq) THEN <<>>
  ELSE SubSeq(seq, k + 1, IF k + n <= Len(seq) THEN k + n ELSE Len(seq))

\* INSERT INTO product (...) VALUES (..., 0, 0, NOW(), NOW()); product_id is
\* the AUTO_INCREMENT key (rows are never deleted)
InsertProductRow(tbl, payload, t) ==
  Append(tbl, [product_id |-> Len(tbl) + 1, SKU |-> payload.SKU,
               title |-> payload.title, category |-> payload.category,
               price |-> payload.price, quantity |-> payload.quantity,
               description |-> payload.description,
               image_url |-> payload.image_url,
               archived |-> 0, is_sold |-> 0,
               created_at |-> t, updated_at |-> t])

\* UPDATE product SET SKU=%s, ..., updated_at=NOW() WHERE product_id=%s
UpdateProductRow(tbl, product_id, payload, t) ==
  [i \in 1..Len(tbl) |->
     IF tbl[i].product_id = product_id
       THEN [tbl[i] EXCEPT !.SKU = payload.SKU, !.title = payload.title,
                           !.category = payload.category, !.price = payload.price,
                           !.quantity = payload.quantity,
                           !.description = payload.description,
                           !.image_url = payload.image_url, !.updated_at = t]
       ELSE tbl[i]]

\* UPDATE product SET archived = 1, updated_at = NOW() WHERE product_id = %s
ArchiveProductRow(tbl, product_id, t) ==
  [i \in 1..Len(tbl) |->
     IF tbl[i].product_id = product_id
       THEN [tbl[i] EXCEPT !.archived = 1, !.updated_at = t]
       ELSE tbl[i]]

insert_product(payload, f) ==
  /\ Len(product) < MaxProducts
  /\ IF f = "none"
       THEN /\ product' = InsertProductRow(product, payload, now)
            /\ ret' = Returned("insert_product", <<>>, Len(product) + 1, FALSE)
       ELSE /\ ret' = Raised("insert_product")
            /\ UNCHANGED product
  /\ conn' = RepoConn(f)
  /\ UNCHANGED <<orders, order_items, tables, now, userVars, req>>

update_product(product_id, payload, f) ==
  /\ IF f = "none"
       THEN /\ product' = UpdateProductRow(product, product_id, payload, now)
            /\ ret' = Returned("update_product", <<>>, 0, FALSE)
       ELSE /\ ret' = Raised("update_product")
            /\ UNCHANGED product
  /\ conn' = RepoConn(f)
  /\ UNCHANGED <<orders, order_items, tables, now, userVars, req>>

archive_product(product_id, f) ==
  /\ IF f = "none"
       THEN /\ product' = ArchiveProductRow(product, product_id, now)
            /\ ret' = Returned("archive_product", <<>>, 0, FALSE)
       ELSE /\ ret' = Raised("archive_product")
            /\ UNCHANGED product
  /\ conn' = RepoConn(f)
  /\ UNCHANGED <<orders, order_items, tables, now, userVars, req>>

----------------------------------------------------------------------------
(* search_products *)

\* the WHERE clause built in lines 190-210, on one row
SearchWhere(filters, row) ==
  /\ row.archived = 0
  /\ (filters.sku # <<>> /\ filters.sku # None) => ColumnLike(row.SKU, filters.sku)
  /\ (filters.category # <<>> /\ filters.category # None)
       => (row.category # None /\ row.category = filters.category)
  /\ (filters.keyword # <<>> /\ filters.keyword # None)
       => (ColumnLike(row.title, filters.keyword)
             \/ ColumnLike(row.description, filters.keyword))
  /\ filters.min_price # NoNumber => row.price >= filters.min_price
  /\ filters.max_price # NoNumber => row.price <= filters.max_price

\* ORDER BY updated_at DESC: a later updated_at first, NULL last
UpdatedBefore(tbl, i, j) ==
  /\ tbl[i].updated_at # NullTime
  /\ tbl[j].updated_at = NullTime \/ tbl[i].updated_at > tbl[j].updated_at

\* the values search_products can return: the count, and LIMIT per_page
\* OFFSET (page - 1) * per_page of the matching rows in an order that
\* ORDER BY updated_at DESC allows
searchResults(filters, page, per_page) ==
  LET matching == {i \in 1..Len(product) : SearchWhere(filters, product[i])}
      before == {ij \in matching \X matching : UpdatedBefore(product, ij[1], ij[2])}
      offset == (page - 1) * per_page
  IN {Returned("search_products",
               LimitOffset([k \in 1..Cardinality(matching) |-> product[p[k]]],
                           per_page, offset),
               Cardinality(matching), FALSE) : p \in Orderings(matching, before)}

search_products(filters, page, per_page, f) ==
  /\ IF f = "none"
       THEN ret' \in searchResults(filters, page, per_page)
       ELSE ret' = Raised("search_products")
  /\ conn' = RepoConn(f)
  /\ UNCHANGED <<product, orders, order_items, tables, now, userVars, req>>

----------------------------------------------------------------------------
(* fetch_idle_stock *)

\* DATEDIFF(NOW(), COALESCE(updated_at, created_at)); NoNumber stands for NULL
DaysIdle(row, t) ==
  IF row.updated_at # NullTime THEN t - row.updated_at
  ELSE IF row.created_at # NullTime THEN t - row.created_at
  ELSE NoNumber

\* WHERE archived = 0 AND (updated_at IS NULL OR updated_at < NOW() - INTERVAL %s DAY)
IdleWhere(row, days, t) ==
  /\ row.archived = 0
  /\ row.updated_at = NullTime \/ row.updated_at < t - days

\* the columns fetch_idle_stock selects
IdleRow(row, t) ==
  [product_id |-> row.product_id, SKU |-> row.SKU, title |-> row.title,
   category |-> row.category, price |-> row.price, quantity |-> row.quantity,
   days_idle |-> DaysIdle(row, t)]

\* ORDER BY days_idle DESC, quantity DESC (NULL days_idle last)
IdleBefore(tbl, t, i, j) ==
  \/ DaysIdle(tbl[i], t) # NoNumber /\ DaysIdle(tbl[j], t) = NoNumber
  \/ /\ DaysIdle(tbl[i], t) # NoNumber
     /\ DaysIdle(tbl[i], t) > DaysIdle(tbl[j], t)
  \/ /\ DaysIdle(tbl[i], t) = DaysIdle(tbl[j], t)
     /\ tbl[i].quantity > tbl[j].quantity

\* the values fetch_idle_stock(days) can return
idleResults(days) ==
  LET idle == {i \in 1..Len(product) : IdleWhere(product[i], days, now)}
      before == {ij \in idle \X idle : IdleBefore(product, now, ij[1], ij[2])}
  IN {Returned("fetch_idle_stock",
               [k \in 1..Cardinality(idle) |-> IdleRow(product[p[k]], now)],
               0, FALSE) : p \in Orderings(idle, before)}

fetch_idle_stock(days, f) ==
  /\ IF f = "none"
       THEN ret' \in idleResults(days)
       ELSE ret' = Raised("fetch_idle_stock")
  /\ conn' = RepoConn(f)
  /\ UNCHANGED <<product, orders, order_items, tables, now, userVars, req>>

----------------------------------------------------------------------------
(* product_has_open_orders *)

\* _table_exists: the count in information_schema.tables is not zero
_table_exists(table_name) == table_name \in tables

\* COALESCE(o.status, 'open') NOT IN ('completed','closed','cancelled')
StatusOpen_NullClosed(status) ==
  status # None /\ status \notin {<<"completed">>, <<"closed">>, <<"cancelled">>}
StatusOpen(status) ==
  (IF status = None THEN <<"open">> ELSE status)
    \notin {<<"completed">>, <<"closed">>, <<"cancelled">>}

\* SELECT COUNT(*) FROM order_items oi JOIN orders o ON oi.order_id = o.id
\* WHERE oi.product_id = %s AND <status open>
OpenOrderCount(product_id) ==
  Cardinality({<<i, j>> \in (1..Len(order_items)) \X (1..Len(orders)) :
                 /\ order_items[i].order_id = orders[j].id
                 /\ order_items[i].product_id = product_id
                 /\ StatusOpen(orders[j].status)})

\* the value product_has_open_orders hands to its caller
openOrdersResult(product_id, f) ==
  \* conn = get_db() is outside the try statement
  IF f = "connect" THEN Raised("product_has_open_orders")
  \* _table_exists(cur, "orders"): first execute
  ELSE IF f = "s1" THEN Returned("product_has_open_orders", <<>>, 0, FALSE)
  ELSE IF ~_table_exists("orders")
    THEN Returned("product_has_open_orders", <<>>, 0, FALSE)
  \* _table_exists(cur, "order_items"): second execute
  ELSE IF f = "s2" THEN Returned("product_has_open_orders", <<>>, 0, FALSE)
  ELSE IF ~_table_exists("order_items")
    THEN Returned("product_has_open_orders", <<>>, 0, FALSE)
  \* the COUNT query: third execute
  ELSE IF f = "s3" THEN Returned("product_has_open_orders", <<>>, 0, FALSE)
  ELSE Returned("product_has_open_orders", <<>>, 0, OpenOrderCount(product_id) # 0)

product_has_open_orders(product_id, f) ==
  /\ ret' = openOrdersResult(product_id, f)
  /\ conn' = RepoConn(f)
  /\ UNCHANGED <<product, orders, order_items, tables, now, userVars, req>>

----------------------------------------------------------------------------
(* The product repository: data and calls *)

K_k == <<"k">>
K_m == <<"m">>

Pay1 == [SKU |-> <<"a","b">>, title |-> <<"x">>, category |-> K_k, price |-> 5,
         quantity |-> 1, description |-> None, image_url |-> None]
Pay2 == [SKU |-> <<"a","_">>, title |-> <<"x","y">>, category |-> K_m, price |-> 10,
         quantity |-> 2, description |-> <<"y">>, image_url |-> None]
Payloads == {Pay1, Pay2}

\* a row that was loaded into the table before this repository wrote to it:
\* updated_at is NULL, the case lines 262 and 265 provide for
LegacyRow == [product_id |-> 1, SKU |-> <<"c","b">>, title |-> <<"x">>,
              category |-> K_k, price |-> 5, quantity |-> 3,
              description |-> None, image_url |-> None,
              archived |-> 0, is_sold |-> 0,
              created_at |-> 0, updated_at |-> NullTime]

NoFilters == [sku |-> None, category |-> None, keyword |-> None,
              min_price |-> NoNumber, max_price |-> NoNumber]

SearchFilters ==
  { NoFilters,
    [NoFilters EXCEPT !.sku = <<"b">>],
    [NoFilters EXCEPT !.sku = <<"_">>],
    [NoFilters EXCEPT !.sku = <<>>, !.keyword = <<"y">>],
    [NoFilters EXCEPT !.category = K_k, !.min_price = 0],
    [NoFilters EXCEPT !.min_price = 10],
    [NoFilters EXCEPT !.sku = <<"a">>, !.max_price = 5] }

Pages == 1..3
PerPages == 1..2

\* <<filters, page, per_page, fault>>: the calls the state machine makes
SearchRequests ==
  ({NoFilters, [NoFilters EXCEPT !.sku = <<"_">>],
    [NoFilters EXCEPT !.sku = <<>>, !.keyword = <<"y">>]} \X {1} \X {2} \X {"none"})
    \cup ({NoFilters} \X {2, 3} \X {1} \X {"none"})
    \cup ({NoFilters} \X {1} \X {2} \X {"connect", "s1", "s2"})

ProductIds == 1..MaxProducts

OrderRows == << [id |-> 1, status |-> None], [id |-> 2, status |-> <<"completed">>],
                [id |-> 3, status |-> <<"pending">>] >>

BaseTables == {"UserProfile", "UserActivityLog", "product", "pricehistory"}

----------------------------------------------------------------------------
(* The product repository as a state machine *)

InitUsersIdle ==
  /\ UserProfile = <<>>
  /\ UserActivityLog = <<>>
  /\ session = [s \in Browsers |-> EmptySession]
  /\ resp = Response(<<>>, "users.login")

\* the order tables belong to another module: they are absent, or present
\* with some rows
InitOrders ==
  \/ /\ tables = BaseTables
     /\ orders = <<>>
     /\ order_items = <<>>
  \/ /\ tables = BaseTables \cup {"orders"}
     /\ orders = OrderRows
     /\ order_items = <<>>
  \/ /\ tables = BaseTables \cup {"orders", "order_items"}
     /\ orders = OrderRows
     /\ order_items \in { <<>>,
                          << [order_id |-> 1, product_id |-> 1] >>,
                          << [order_id |-> 2, product_id |-> 1] >>,
                          << [order_id |-> 2, product_id |-> 1],
                             [order_id |-> 3, product_id |-> 2] >> }

InitProducts ==
  /\ InitUsersIdle
  /\ tables = BaseTables
  /\ orders = <<>>
  /\ order_items = <<>>
  /\ product \in {<<>>, <<LegacyRow>>}
  /\ ret = [op |-> "none", kind |-> "none", rows |-> <<>>, total |-> 0, flag |-> FALSE]
  /\ conn = "none"
  /\ req = <<>>
  /\ now = 0

NextProducts ==
  \/ \E payload \in Payloads, f \in {"none", "connect", "s1"} :
       insert_product(payload, f)
  \/ \E id \in ProductIds, f \in {"none", "connect", "s1"} :
       update_product(id, Pay2, f)
  \/ \E id \in ProductIds, f \in {"none", "connect", "s1"} : archive_product(id, f)
  \/ \E r \in SearchRequests : search_products(r[1], r[2], r[3], r[4])
  \/ \E days \in 0..MaxTime, f \in {"none", "connect", "s1"} : fetch_idle_stock(days, f)
  \/ Tick

SpecProducts == InitProducts /\ [][NextProducts]_vars

----------------------------------------------------------------------------
(* The archive check as a state machine: product_has_open_orders over the   *)
(* order tables another module may or may not have created                  *)

InitArchive ==
  /\ InitUsersIdle
  /\ InitOrders
  /\ product \in {<<LegacyRow>>, InsertProductRow(<<LegacyRow>>, Pay1, 0)}
  /\ ret = [op |-> "none", kind |-> "none", rows |-> <<>>, total |-> 0, flag |-> FALSE]
  /\ conn = "none"
  /\ req = <<>>
  /\ now = 0

NextArchive ==
  \/ \E id \in ProductIds, f \in RepoFaults : product_has_open_orders(id, f)
  \/ \E id \in ProductIds, f \in {"none", "connect", "s1"} : archive_product(id, f)
  \/ \E f \in {"none", "connect", "s1"} : update_product(1, Pay2, f)
  \/ Tick

SpecArchive == InitArchive /\ [][NextArchive]_vars

----------------------------------------------------------------------------
(* Properties of the users blueprint.  Each is stated of the result of a    *)
(* request in whatever state the blueprint can reach.                       *)

\* the redirect of register after flashing one 'danger' message
RegisterRejected(msg) == Response(<<Msg(msg, "danger")>>, "users.register")

\* the trimmed, lower-cased form of every email of the model
Folded == [raw \in {E_a, E_A, E_sa, E_z, E_bad, Empty} |-> lower(strip(raw))]

\* a register request whose trimmed, lower-cased email is the Email of a row
DuplicateEmail(form) ==
  \E i \in 1..Len(UserProfile) : UserProfile[i].Email = Folded[form.email]

\* C1, as stated: every register request whose trimmed, lower-cased email is
\* the Email of an existing row is answered 'Email already registered.' and
\* inserts nothing (read with the database available: no injected fault).
C1_AlwaysAlreadyRegistered ==
  \A r \in RegisterRequests :
    (r[2] = "none" /\ DuplicateEmail(r[1]))
      => /\ registerResult(r[1], r[2]).resp = RegisterRejected("Email already registered.")
         /\ registerResult(r[1], r[2]).UserProfile = UserProfile
         /\ registerResult(r[1], r[2]).UserActivityLog = UserActivityLog

\* C1, amended: a register request whose trimmed, lower-cased email is the
\* Email of an existing row inserts no UserProfile row and no UserActivityLog
\* row, whatever the other fields and whatever database step fails; it is
\* answered 'Email already registered.' when the form passes the field
\* validation and the existence check runs; and no two UserProfile rows have
\* emails that are equal up to letter case.
C1_DuplicateRejected ==
  /\ \A i, j \in 1..Len(UserProfile) :
       lower(UserProfile[i].Email) = lower(UserProfile[j].Email) => i = j
  /\ \A r \in RegisterRequests :
       DuplicateEmail(r[1])
         => /\ registerResult(r[1], r[2]).UserProfile = UserProfile
            /\ registerResult(r[1], r[2]).UserActivityLog = UserActivityLog
            /\ (RegisterParsed[r[1]].verdict = "ok" /\ r[2] \notin {"connect", "s1"})
                 => registerResult(r[1], r[2]).resp
                      = RegisterRejected("Email already registered.")

\* a second registration of a@b.io was refused and one row is left
C1_Witness ==
  /\ resp = RegisterRejected("Email already registered.")
  /\ Cardinality({i \in 1..Len(UserProfile) : lower(UserProfile[i].Email) = E_a}) = 1

\* the response to a login that the handler refuses before it looks at Status,
\* by the fault injected: the same whichever of the two reasons applies
LoginRefused(f) ==
  IF f = "connect" THEN Response(<<Msg("Database error.", "danger")>>, "users.login")
  ELSE IF f = "s1" THEN Response(<<ErrorMsg>>, "users.login")
  ELSE Response(<<Msg("Invalid email or password.", "danger")>>, "users.login")

NoSuchEmail(rawemail) == SelectUser(UserProfile, Folded[rawemail]) = {}

WrongPassword(rawemail, password) ==
  /\ ~NoSuchEmail(rawemail)
  /\ ~check_password_hash(FetchUser(UserProfile, Folded[rawemail]).UPassword, password)

\* a login request leaves the session of browser s and both tables as they are
LoginChangesNothing(s, r) ==
  /\ loginResult(s, r[1], r[2], r[3]).session = session[s]
  /\ loginResult(s, r[1], r[2], r[3]).UserProfile = UserProfile
  /\ loginResult(s, r[1], r[2], r[3]).UserActivityLog = UserActivityLog

\* C2: a login with an email that has no row and a login with an existing
\* email and a non-matching password have the same outcome: the response
\* depends on neither the email nor the password (with the database available
\* it flashes 'Invalid email or password.' and redirects to the login page),
\* no session key is set, UserProfile and UserActivityLog are unchanged.
C2_SameLoginFailure ==
  \A s \in Browsers, r \in LoginRequests :
    (NoSuchEmail(r[1]) \/ WrongPassword(r[1], r[2]))
      => /\ loginResult(s, r[1], r[2], r[3]).resp = LoginRefused(r[3])
         /\ LoginChangesNothing(s, r)

\* a login was refused in a state where one request of the model names a
\* missing email and another an existing email with the wrong password
C2_Witness ==
  /\ resp = LoginRefused("none")
  /\ \E r \in LoginRequests : NoSuchEmail(r[1])
  /\ \E r \in LoginRequests : WrongPassword(r[1], r[2])

\* the login request names an account with the right password and Status # active
DisabledLogin(rawemail, password) ==
  /\ ~NoSuchEmail(rawemail)
  /\ ~WrongPassword(rawemail, password)
  /\ FetchUser(UserProfile, Folded[rawemail]).Status # "active"

\* C3: a login with the correct password for an account whose Status is not
\* 'active' sets no session key, leaves LastLogin (the whole UserProfile) as
\* it was and appends no UserActivityLog row; with the database available it
\* flashes 'Account disabled.'
C3_DisabledLoginRefused ==
  \A s \in Browsers, r \in LoginRequests :
    DisabledLogin(r[1], r[2])
      => /\ LoginChangesNothing(s, r)
         /\ r[3] \notin {"connect", "s1"}
              => loginResult(s, r[1], r[2], r[3]).resp
                   = Response(<<Msg("Account disabled.", "warning")>>, "users.login")

C3_Witness ==
  /\ resp = Response(<<Msg("Account disabled.", "warning")>>, "users.login")
  /\ \E i \in 1..Len(UserProfile) : UserProfile[i].Status = "disabled"

C5_LogoutClearsSession ==
  \A s \in Browsers, f \in {"none", "connect", "s1"} :
    LoggedIn(s) => logoutResult(s, f).session = EmptySession

\* a logout whose audit write failed: 'Logged out.' was flashed, the session
\* is empty, and UserActivityLog has no 'Logged Out' row
C5_Witness ==
  /\ resp = Response(<<Msg("Logged out.", "success")>>, "users.login")
  /\ session[1] = EmptySession
  /\ \A i \in 1..Len(UserActivityLog) : UserActivityLog[i].ActivityType # "Logged Out"

\* the profile form asks for a password change that must be refused
RefusedPasswordChange(form) ==
  /\ strip(form.new_password) # <<>>
  /\ \/ strip(form.new_password) # strip(form.confirm_password)
     \/ ~is_strong_password(strip(form.new_password))[1]

\* the profile requests of the model that ask for such a change
RefusedProfileRequests == {r \in ProfileRequests : RefusedPasswordChange(r[1])}

\* C6: a profile update with a non-empty new_password that differs from
\* confirm_password or fails is_strong_password applies nothing: UserProfile
\* and UserActivityLog are unchanged.
C6_RefusedPasswordAppliesNothing ==
  \A s \in Browsers, r \in RefusedProfileRequests :
    LoggedIn(s)
      => /\ profileResult(s, r[1], r[2]).UserProfile = UserProfile
         /\ profileResult(s, r[1], r[2]).UserActivityLog = UserActivityLog

\* a logged-in browser's form with first_name and mismatched passwords was refused
C6_Witness ==
  /\ Len(resp.flash) = 2
  /\ resp.flash[1] = Msg("Passwords do not match.", "danger")
  /\ LoggedIn(1)

\* C7: no step removes a UserProfile row or changes its Email, and a row whose
\* Status is 'disabled' keeps that Status.
C7_StatusOneWay ==
  [][/\ Len(UserProfile') >= Len(UserProfile)
     /\ \A i \in 1..Len(UserProfile) :
          /\ UserProfile'[i].Email = UserProfile[i].Email
          /\ UserProfile[i].Status = "disabled" => UserProfile'[i].Status = "disabled"]_vars

\* a disabled account whose browser is still logged in (the audit INSERT of
\* deactivate failed) and asked again for a change
C7_Witness ==
  /\ \E i \in 1..Len(UserProfile) : UserProfile[i].Status = "disabled"
  /\ LoggedIn(1)
  /\ resp.to = "users.profile"

----------------------------------------------------------------------------
(* Properties of the product repository *)

\* sub occurs in str as a run of consecutive characters
IsSubstring(sub, str) ==
  \E i \in 1..(Len(str) + 1) :
    /\ i + Len(sub) - 1 <= Len(str)
    /\ SubSeq(str, i, i + Len(sub) - 1) = sub

Supplied(text) == text # None /\ text # <<>>

\* the filter semantics C8 states: non-archived, SKU substring, exact
\* category, keyword substring in title or description, price bounds
SatisfiesFilters(filters, row) ==
  /\ row.archived = 0
  /\ Supplied(filters.sku) => (row.SKU # None /\ IsSubstring(filters.sku, row.SKU))
  /\ Supplied(filters.category) => row.category = filters.category
  /\ Supplied(filters.keyword)
       => \/ row.title # None /\ IsSubstring(filters.keyword, row.title)
          \/ row.description # None /\ IsSubstring(filters.keyword, row.description)
  /\ filters.min_price # NoNumber => row.price >= filters.min_price
  /\ filters.max_price # NoNumber => row.price <= filters.max_price

\* rows is a page of the products in S, ordered by updated_at descending
IsPageOf(rows, S, page, per_page) ==
  \E p \in Orderings(S, {ij \in S \X S : UpdatedBefore(product, ij[1], ij[2])}) :
    rows = LimitOffset([k \in 1..Cardinality(S) |-> product[p[k]]],
                       per_page, (page - 1) * per_page)

\* what C8 states of one call
SearchAsClaimed(filters, page, per_page) ==
  LET S == {i \in 1..Len(product) : SatisfiesFilters(filters, product[i])}
  IN \A res \in searchResults(filters, page, per_page) :
       /\ res.kind = "return"
       /\ res.total = Cardinality(S)
       /\ IsPageOf(res.rows, S, page, per_page)
       /\ Len(res.rows) <= per_page
       /\ (page - 1) * per_page >= Cardinality(S) => res.rows = <<>>

\* C8, as stated: for every filter set, page >= 1 and per_page >= 1,
\* search_products returns the number of non-archived products that satisfy
\* every supplied filter (SKU substring, exact category, keyword substring in
\* title or description, price bounds) and the page of them at offset
\* (page-1)*per_page in updated_at descending order, empty beyond the last row.
C8_SearchProducts ==
  \A filters \in SearchFilters, page \in Pages, per_page \in PerPages :
    SearchAsClaimed(filters, page, per_page)

\* the filter texts of the model that contain no LIKE wildcard
HasWildcard(text) == text # None /\ \E i \in 1..Len(text) : text[i] \in {"%", "_"}

\* C8 holds of every call whose sku and keyword contain neither % nor _
C8_SearchProductsWithoutWildcards ==
  \A filters \in SearchFilters, page \in Pages, per_page \in PerPages :
    (~HasWildcard(filters.sku) /\ ~HasWildcard(filters.keyword))
      => SearchAsClaimed(filters, page, per_page)

\* COALESCE(updated_at, created_at)
EffectiveTime(row) ==
  IF row.updated_at # NullTime THEN row.updated_at ELSE row.created_at

\* C9, as stated: fetch_idle_stock(days) returns exactly the non-archived
\* products whose effective timestamp (updated_at, or created_at when
\* updated_at is null) is older than days days before now.
C9_IdleStock ==
  \A days \in 0..MaxTime : \A res \in idleResults(days) :
    {res.rows[k].product_id : k \in 1..Len(res.rows)}
      = {product[i].product_id : i \in
           {i \in 1..Len(product) :
              /\ product[i].archived = 0
              /\ EffectiveTime(product[i]) # NullTime
              /\ EffectiveTime(product[i]) < now - days}}

\* an order item of the product whose order is not completed, closed or cancelled
HasOpenOrderItem(product_id) ==
  \E i \in 1..Len(order_items), j \in 1..Len(orders) :
    /\ order_items[i].order_id = orders[j].id
    /\ order_items[i].product_id = product_id
    /\ orders[j].status \notin {<<"completed">>, <<"closed">>, <<"cancelled">>}

BothOrderTables == "orders" \in tables /\ "order_items" \in tables

\* C10, as stated: product_has_open_orders returns False whenever a table is
\* absent and whenever any step of the check fails, and True only when both
\* tables exist and an open order item of the product is found.
C10_FailsOpenOnAnyError ==
  \A id \in ProductIds, f \in RepoFaults :
    /\ openOrdersResult(id, f).kind = "return"
    /\ openOrdersResult(id, f).flag
         = (f = "none" /\ BothOrderTables /\ HasOpenOrderItem(id))

\* C10, amended: once the connection is open, product_has_open_orders returns
\* False whenever a table is absent and whenever a statement of the check
\* fails, and True exactly when both tables exist, no statement fails and an
\* open order item of the product is found; when the connection cannot be
\* opened, the exception of get_db() reaches the caller.
C10_FailsOpenOnStatementError ==
  \A id \in ProductIds, f \in RepoFaults :
    IF f = "connect"
      THEN openOrdersResult(id, f).kind = "raise"
      ELSE /\ openOrdersResult(id, f).kind = "return"
           /\ openOrdersResult(id, f).flag
                = (f = "none" /\ BothOrderTables /\ HasOpenOrderItem(id))

\* the check returned False although product 1 has an open order item,
\* because a statement of the check failed
C10_Witness ==
  /\ ret.op = "product_has_open_orders"
  /\ ret.kind = "return"
  /\ ~ret.flag
  /\ BothOrderTables
  /\ HasOpenOrderItem(1)

----------------------------------------------------------------------------
(* is_strong_password as a state machine: a password is drawn, then checked *)

\* one character of each class the rules test, and one of none of them
PasswordAlphabet == {"A", "a", "1", "!", "-"}

Passwords ==
  {core \o [i \in 1..k |-> c] :
     core \in UNION {[1..n -> PasswordAlphabet] : n \in 0..MaxCore},
     k \in 0..MaxPad, c \in PasswordAlphabet}

InitPassword ==
  /\ InitUsersIdle
  /\ product = <<>>
  /\ orders = <<>>
  /\ order_items = <<>>
  /\ tables = BaseTables
  /\ now = 0
  /\ conn = "none"
  /\ req = <<>>
  /\ ret \in {[op |-> "is_strong_password", kind |-> "call", password |-> p] :
                p \in Passwords}

\* is_valid, msg = is_strong_password(password)
CheckPassword ==
  /\ ret.kind = "call"
  /\ ret' = [op |-> "is_strong_password", kind |-> "return",
             password |-> ret.password, value |-> is_strong_password(ret.password)]
  /\ UNCHANGED <<product, orders, order_items, tables, now, userVars, conn, req>>

NextPassword == CheckPassword

SpecPassword == InitPassword /\ [][NextPassword]_vars

----------------------------------------------------------------------------
(* Properties of is_strong_password *)

\* the five rules in their stated order, and the message of each
RuleMet(p, k) ==
  CASE k = 1 -> Len(p) >= 8
    [] k = 2 -> \E i \in 1..Len(p) : p[i] \in UpperChars
    [] k = 3 -> \E i \in 1..Len(p) : p[i] \in LowerChars
    [] k = 4 -> \E i \in 1..Len(p) : p[i] \in DigitChars
    [] k = 5 -> \E i \in 1..Len(p) : p[i] \in SpecialChars

RuleMessage ==
  <<"Password must be at least 8 characters", "Must contain uppercase letter",
    "Must contain lowercase letter", "Must contain digit",
    "Must contain special character">>

\* C11: is_strong_password returns (False, message of the first unmet rule in
\* the order length, uppercase, lowercase, digit, special) for every password
\* that breaks a rule, and (True, 'Valid') exactly when all five rules are met.
C11_FirstUnmetRule ==
  ret.kind = "return" =>
    LET p == ret.password
        unmet == {k \in 1..5 : ~RuleMet(p, k)}
    IN IF unmet = {}
         THEN ret.value = <<TRUE, "Valid">>
         ELSE ret.value = <<FALSE, RuleMessage[CHOOSE k \in unmet : \A j \in unmet : k <= j]>>

\* a checked password that breaks two rules, digit and special character
C11_Witness ==
  /\ ret.kind = "return"
  /\ ret.op = "is_strong_password"
  /\ {k \in 1..5 : ~RuleMet(ret.password, k)} = {4, 5}
  /\ ret.value = <<FALSE, "Must contain digit">>

----------------------------------------------------------------------------
(* POST /users/api/chat-analyze *)

\* INTERVAL 30 DAY of the 'new customers' query
Interval30 == 30

K_new_customers == <<"n","e","w"," ","c","u","s","t","o","m","e","r","s">>
K_active_users == <<"a","c","t","i","v","e"," ","u","s","e","r","s">>
K_merchants == <<"m","e","r","c","h","a","n","t","s">>
K_customers == <<"c","u","s","t","o","m","e","r","s">>
K_disabled == <<"d","i","s","a","b","l","e","d">>

\* the queries dict, in insertion order (the order queries.items() yields)
ChatKeywords_CustomersFirst ==
  <<K_customers, K_new_customers, K_active_users, K_merchants, K_disabled>>
ChatKeywords ==
  <<K_new_customers, K_active_users, K_merchants, K_customers, K_disabled>>

ChatLabel(keyword) ==
  CASE keyword = K_new_customers -> "New customers (30d)"
    [] keyword = K_active_users -> "Total active users"
    [] keyword = K_merchants -> "Total merchants"
    [] keyword = K_customers -> "Total customers"
    [] keyword = K_disabled -> "Disabled accounts"

\* the WHERE clause of the canned query of a keyword
ChatWhere(keyword, row, t) ==
  CASE keyword = K_new_customers ->
         row.UserType = T_customer /\ row.TimeOfCreation >= t - Interval30
    [] keyword = K_active_users -> row.Status = "active"
    [] keyword = K_merchants -> row.UserType = T_merchant
    [] keyword = K_customers -> row.UserType = T_customer
    [] keyword = K_disabled -> row.Status = "disabled"

\* SELECT COUNT(*) as cnt FROM UserProfile WHERE ...
ChatCount(keyword, tbl, t) ==
  Cardinality({i \in 1..Len(tbl) : ChatWhere(keyword, tbl[i], t)})

\* keyword in question
In(keyword, question) ==
  \E i \in 1..(Len(question) + 1) :
    /\ i + Len(keyword) - 1 <= Len(question)
    /\ SubSeq(question, i, i + Len(keyword) - 1) = keyword

\* (data.get('question', '') or '').strip().lower()
NormalizeQuestion_Raw(raw) == raw
NormalizeQuestion(raw) == lower(strip(raw))

\* INSERT INTO UserActivityLog (Email, ActivityType, ActivityDescription,
\* ActivityDate) VALUES (%s, 'Analysis', %s, NOW())
InsertAnalysisLog(log, email, question, t) ==
  Append(log, [Email |-> email, ActivityType |-> "Analysis",
               ActivityDescription |-> question, ActivityDate |-> t])

\* jsonify(body), status
Json(body, status) == [json |-> body, status |-> status]

JsonError == Json([error |-> "<exception>"], 500)

Q_Customers == <<"C","u","s","t","o","m","e","r","s"," ">>
Q_new_merchants == <<"n","e","w"," ","c","u","s","t","o","m","e","r","s"," ","o","r"," ","m","e","r","c","h","a","n","t","s">>
Q_hello == <<"h","e","l","l","o">>
Q_blank == <<" ">>

\* questions: two words, each a keyword, a keyword in upper case, another
\* word or nothing, with or without blanks around them
QuestionWords ==
  {K_new_customers, K_active_users, K_merchants, K_customers, K_disabled, <<>>,
   <<"N","e","w"," ","C","u","s","t","o","m","e","r","s">>, <<"D","I","S","A","B","L","E","D">>, <<"u","s","e","r","s">>, <<"c","u","s","t","o","m","e","r">>}

ChatQuestions ==
  {pre \o a \o mid \o b : pre \in {<<>>, <<" ">>}, mid \in {<<>>, <<" ">>},
                          a \in QuestionWords, b \in QuestionWords}
    \cup {Q_Customers, Q_new_merchants, Q_hello, Q_blank}

\* line 399 and the tests of line 420 for every question of the model, tabulated
ChatParsed ==
  [raw \in ChatQuestions |->
     [question |-> NormalizeQuestion(raw),
      hits |-> {k \in 1..Len(ChatKeywords) : In(ChatKeywords[k], NormalizeQuestion(raw))}]]

\* The effect of one chat-analyze POST of browser s on the current state:
\* the log, the response, the canned queries executed, in order.
chatResult(s, raw, f) ==
  LET question == ChatParsed[raw].question
      email == session[s]["user_email"]
      hits == ChatParsed[raw].hits
      first == ChatKeywords[CHOOSE k \in hits : \A j \in hits : k <= j]
      result == ChatCount(first, UserProfile, now)
      same(r, ex, c) == [UserActivityLog |-> UserActivityLog, resp |-> r,
                        executed |-> ex, conn |-> c]
  IN IF ~LoggedIn(s) THEN same(LoginRequiredResponse, <<>>, "none")
     ELSE IF question = <<>> THEN same(Json([error |-> "No question"], 400), <<>>, "none")
     ELSE IF f = "connect" THEN same(JsonError, <<>>, "none")
     ELSE IF hits = {}
       THEN IF f = "s1" THEN same(JsonError, <<>>, "open")
            ELSE [UserActivityLog |-> InsertAnalysisLog(UserActivityLog, email, question, now),
                  resp |-> Json([answer |-> "Query not understood. Try: \"new customers\", \"active users\", \"merchants\", \"customers\", \"disabled\""], 200),
                  executed |-> <<>>, conn |-> "closed"]
     ELSE IF f = "s1" THEN same(JsonError, <<>>, "open")
     ELSE IF f = "s2" THEN same(JsonError, <<first>>, "open")
     ELSE [UserActivityLog |-> InsertAnalysisLog(UserActivityLog, email, question, now),
           resp |-> Json([answer |-> <<ChatLabel(first), result>>, value |-> result,
                          label |-> ChatLabel(first)], 200),
           executed |-> <<first>>, conn |-> "closed"]

chat_analyze(s, raw, f) ==
  LET out == chatResult(s, raw, f)
  IN /\ LogRoom(out.UserActivityLog)
     /\ UserActivityLog' = out.UserActivityLog
     /\ resp' = out.resp
     /\ conn' = out.conn
     /\ UNCHANGED <<UserProfile, session, now, prodVars, req>>

----------------------------------------------------------------------------
(* chat-analyze as a state machine, on accounts registered in the past *)

\* the UserProfile row and the log row register leaves for a form at time t
Registered(tbl, form, t) ==
  InsertUser(tbl, NormalizeEmail(form.email), form.user_type, form.first_name, form.last_name, generate_password_hash(form.password), None, None, None, t)

ChatForms ==
  <<RegBase, [RegBase EXCEPT !.email = E_z, !.user_type = T_merchant, !.first_name = N_Bo]>>

\* one or two accounts, created 31 or 30 days ago
ChatProfiles ==
  {Registered(<<>>, ChatForms[1], t1) : t1 \in 0..1}
    \cup {Registered(Registered(<<>>, ChatForms[1], t1), ChatForms[2], 1) : t1 \in 0..1}
    \cup {Registered(Registered(<<>>, ChatForms[2], 0), ChatForms[1], t1) : t1 \in 0..1}

InitChat ==
  /\ UserProfile \in ChatProfiles
  /\ UserActivityLog = [i \in 1..Len(UserProfile) |->
                          [Email |-> UserProfile[i].Email, ActivityType |-> "Registered",
                           ActivityDescription |-> None,
                           ActivityDate |-> UserProfile[i].TimeOfCreation]]
  /\ session = [s \in Browsers |-> EmptySession]
  /\ resp = Response(<<>>, "users.login")
  /\ InitProductsIdle
  /\ now = Interval30 + 1

\* <<question, fault>>: the requests the state machine makes
ChatRequests ==
  ({Q_Customers, Q_new_merchants, Q_hello, Q_blank} \X {"none"})
    \cup ({Q_Customers} \X {"connect", "s1", "s2"})
    \cup ({Q_hello} \X {"s1"})

NextChat ==
  \/ \E e \in {E_a, E_z} : login(1, e, P_1, "none")
  \/ deactivate(1, "none")
  \/ \E r \in ChatRequests : chat_analyze(1, r[1], r[2])

SpecChat == InitChat /\ [][NextChat]_vars

----------------------------------------------------------------------------
(* Properties of chat-analyze *)

\* the keywords in the order C12 gives
ClaimedKeywordOrder ==
  <<K_new_customers, K_active_users, K_merchants, K_customers, K_disabled>>

\* the keywords that are substrings of the lower-cased question
ClaimedHits ==
  [raw \in ChatQuestions |->
     {k \in 1..5 : IsSubstring(ClaimedKeywordOrder[k], lower(raw))}]

Blank == [raw \in ChatQuestions |-> strip(raw) = <<>>]

\* what C12 states of the question raw asked by browser s
AnsweredByFirstKeyword(s, raw) ==
  LET out == chatResult(s, raw, "none")
      hits == ClaimedHits[raw]
      first == ClaimedKeywordOrder[CHOOSE k \in hits : \A j \in hits : k <= j]
  IN IF hits = {}
       THEN /\ out.resp.status = 200
            /\ DOMAIN out.resp.json = {"answer"}
            /\ out.executed = <<>>
       ELSE /\ out.resp = Json([answer |-> <<ChatLabel(first), ChatCount(first, UserProfile, now)>>,
                                value |-> ChatCount(first, UserProfile, now),
                                label |-> ChatLabel(first)], 200)
            /\ out.executed = <<first>>

\* C12, as stated: chat_analyze answers with the canned query of the first
\* keyword, in the order 'new customers', 'active users', 'merchants',
\* 'customers', 'disabled', that is a substring of the lower-cased question,
\* executing no other canned query, and answers 'Query not understood' with
\* no value when no keyword is a substring.
C12_FirstKeyword ==
  \A raw \in ChatQuestions : LoggedIn(1) => AnsweredByFirstKeyword(1, raw)

\* C12, amended: with the database available, for every question that is
\* not blank chat_analyze answers with the canned query of the first keyword
\* in the fixed order that is a substring of the lower-cased question,
\* executing no other canned query, and answers 'Query not understood' with
\* no value when no keyword is a substring; a blank question is answered
\* with the error 'No question' and status 400.
C12_FirstKeywordOfNonBlank ==
  \A raw \in ChatQuestions :
    LoggedIn(1) =>
      IF Blank[raw]
        THEN /\ chatResult(1, raw, "none").resp = Json([error |-> "No question"], 400)
             /\ chatResult(1, raw, "none").executed = <<>>
        ELSE AnsweredByFirstKeyword(1, raw)

\* the question 'new customers or merchants' was answered with the count of
\* new customers, although 'merchants' and 'customers' are substrings too
C12_Witness ==
  /\ LoggedIn(1)
  /\ "json" \in DOMAIN resp
  /\ "label" \in DOMAIN resp.json
  /\ resp.json.label = "New customers (30d)"
  /\ UserActivityLog[Len(UserActivityLog)].ActivityDescription = Q_new_merchants

\* the row C13 and its amendment expect, with the given description
AnalysisRow(s, description) ==
  [Email |-> session[s]["user_email"], ActivityType |-> "Analysis",
   ActivityDescription |-> description, ActivityDate |-> now]

\* C13, as stated: every chat_analyze request of a logged-in user, whether or
\* not a keyword matched, appends one 'Analysis' row to UserActivityLog whose
\* ActivityDescription is the raw question text the user submitted.
C13_AuditRowHoldsRawQuestion ==
  \A raw \in ChatQuestions :
    LoggedIn(1) =>
      chatResult(1, raw, "none").UserActivityLog
        = Append(UserActivityLog, AnalysisRow(1, raw))

\* the question as the amended C13 expects it in the log
StrippedLowered == [raw \in ChatQuestions |-> lower(strip(raw))]

\* C13, amended: with the database available, every chat_analyze request of
\* a logged-in user whose question is not blank, whether or not a keyword
\* matched, appends exactly one 'Analysis' row for the session's email whose
\* ActivityDescription is the question stripped and lower-cased; a request
\* with a blank question appends no row.
C13_AuditRowHoldsNormalisedQuestion ==
  \A raw \in ChatQuestions :
    LoggedIn(1) =>
      chatResult(1, raw, "none").UserActivityLog
        = IF Blank[raw] THEN UserActivityLog
          ELSE Append(UserActivityLog, AnalysisRow(1, StrippedLowered[raw]))

\* the question 'Customers ' was answered and logged as 'customers'
C13_Witness ==
  /\ LoggedIn(1)
  /\ "json" \in DOMAIN resp
  /\ "label" \in DOMAIN resp.json
  /\ resp.json.label = "Total customers"
  /\ UserActivityLog[Len(UserActivityLog)] = AnalysisRow(1, K_customers)

----------------------------------------------------------------------------
(* Properties of UserActivityLog *)

\* after is before, or before with one row appended
AppendOnly(before, after) ==
  \/ after = before
  \/ /\ Len(after) = Len(before) + 1
     /\ SubSeq(after, 1, Len(before)) = before

\* before with exactly one row of the type for the email, dated now
OneRow(before, email, type) ==
  Append(before, [Email |-> email, ActivityType |-> type,
                  ActivityDescription |-> None, ActivityDate |-> now])

\* no handler, whatever step fails, rewrites or removes a row of the log
LogIsAppendOnly ==
  /\ \A r \in RegisterRequests :
       AppendOnly(UserActivityLog, registerResult(r[1], r[2]).UserActivityLog)
  /\ \A r \in LoginRequests :
       AppendOnly(UserActivityLog, loginResult(1, r[1], r[2], r[3]).UserActivityLog)
  /\ \A r \in ProfileRequests :
       AppendOnly(UserActivityLog, profileResult(1, r[1], r[2]).UserActivityLog)
  /\ \A f \in {"none", "connect", "s1", "s2"} :
       AppendOnly(UserActivityLog, deactivateResult(1, f).UserActivityLog)
  /\ \A f \in {"none", "connect", "s1"} :
       AppendOnly(UserActivityLog, logoutResult(1, f).UserActivityLog)
  /\ \A r \in ChatRequests :
       AppendOnly(UserActivityLog, chatResult(1, r[1], r[2]).UserActivityLog)

\* register, login, deactivate and logout with the database available: one
\* row of the matching type when the request is accepted, none when rejected
OneRowPerAcceptedRequest ==
  /\ \A form \in ValidRegisterForms \cup InvalidRegisterForms :
       registerResult(form, "none").UserActivityLog
         = IF form \in ValidRegisterForms /\ ~DuplicateEmail(form)
             THEN OneRow(UserActivityLog, Folded[form.email], "Registered")
             ELSE UserActivityLog
  /\ \A r \in LoginRequests :
       r[3] = "none" =>
         loginResult(1, r[1], r[2], "none").UserActivityLog
           = IF \E i \in 1..Len(UserProfile) :
                  /\ UserProfile[i].Email = Folded[r[1]]
                  /\ UserProfile[i].UPassword = generate_password_hash(r[2])
                  /\ UserProfile[i].Status = "active"
               THEN OneRow(UserActivityLog, Folded[r[1]], "Logged In")
               ELSE UserActivityLog
  /\ LoggedIn(1) =>
       /\ deactivateResult(1, "none").UserActivityLog
            = OneRow(UserActivityLog, session[1]["user_email"], "Deactivated")
       /\ logoutResult(1, "none").UserActivityLog
            = OneRow(UserActivityLog, session[1]["user_email"], "Logged Out")

\* C14, as stated: no operation updates or deletes a UserActivityLog row;
\* every completed register, successful login, profile update that changes at
\* least one field, deactivate and logout appends exactly one row for the
\* acting email with the matching ActivityType, and a rejected request
\* (validation failure, duplicate email, bad credentials, disabled account,
\* no-op profile update) appends none.
C14_OneRowPerStateChange ==
  /\ LogIsAppendOnly
  /\ OneRowPerAcceptedRequest
  /\ \A form \in ProfileForms :
       LoggedIn(1) =>
         profileResult(1, form, "none").UserActivityLog
           = IF profileResult(1, form, "none").UserProfile # UserProfile
               THEN OneRow(UserActivityLog, session[1]["user_email"], "Profile Updated")
               ELSE UserActivityLog

\* the profile forms that submit a non-blank field or new password and whose
\* password change, if any, is not refused
SubmitsUpdate ==
  [form \in ProfileForms |->
     /\ ~RefusedPasswordChange(form)
     /\ \E k \in DOMAIN form : k # "confirm_password" /\ strip(form[k]) # <<>>]

\* a profile request appends one row exactly when it submits an update
OneRowPerSubmittedUpdate ==
  \A form \in ProfileForms :
    LoggedIn(1) =>
      profileResult(1, form, "none").UserActivityLog
        = IF SubmitsUpdate[form]
            THEN OneRow(UserActivityLog, session[1]["user_email"], "Profile Updated")
            ELSE UserActivityLog

\* C14, amended: no operation updates or deletes a UserActivityLog row; with
\* the database available, every accepted register, successful login,
\* deactivate and logout, and every profile request that submits at least one
\* non-blank field or new password that is not refused (whether or not a
\* stored value changes), appends exactly one row for the acting email with
\* the matching ActivityType; a request rejected for validation, duplicate
\* email, bad credentials, disabled account, a refused password or a form
\* with no value appends none.
C14_OneRowPerAcceptedUpdate ==
  /\ [][AppendOnly(UserActivityLog, UserActivityLog')]_vars
  /\ [](OneRowPerAcceptedRequest /\ OneRowPerSubmittedUpdate)

\* a profile request was accepted and logged after a login and a registration
C14_Witness ==
  /\ Len(UserActivityLog) = 3
  /\ UserActivityLog[1].ActivityType = "Registered"
  /\ UserActivityLog[2].ActivityType = "Logged In"
  /\ UserActivityLog[3].ActivityType = "Profile Updated"
  /\ resp = Response(<<Msg("Profile updated.", "success")>>, "users.profile")

----------------------------------------------------------------------------
(* Properties of the connections *)

\* C15, as stated: every connection an operation opens is closed by the time
\* the operation returns, on every exit path, the paths where a statement
\* raises included: no operation leaves its connection open.
C15_NoOpenConnection == conn # "open"

----------------------------------------------------------------------------
(* Two register requests served concurrently, each by a worker with its own  *)
(* autocommit connection: every statement is one atomic step                 *)

Requests == {1, 2}

\* the row lines 127-132 insert for a form, whatever the table holds
RegisterInsertRow_IfAbsent(tbl, form, t) ==
  IF SelectUser(tbl, RegisterParsed[form].fields.email) # {} THEN tbl
  ELSE InsertUser(tbl, RegisterParsed[form].fields.email, RegisterParsed[form].fields.user_type, RegisterParsed[form].fields.first_name, RegisterParsed[form].fields.last_name, RegisterParsed[form].hashed, RegisterParsed[form].fields.phone, RegisterParsed[form].fields.website, RegisterParsed[form].fields.business_name, t)

RegisterInsertRow(tbl, form, t) ==
  InsertUser(tbl, RegisterParsed[form].fields.email, RegisterParsed[form].fields.user_type, RegisterParsed[form].fields.first_name, RegisterParsed[form].fields.last_name, RegisterParsed[form].hashed, RegisterParsed[form].fields.phone, RegisterParsed[form].fields.website, RegisterParsed[form].fields.business_name, t)

\* request p returns: its response, and its connection as it leaves it
RegisterReturn(p, r, c) ==
  /\ resp' = r
  /\ conn' = c
  /\ req' = [req EXCEPT ![p].pc = "done"]

\* lines 81-117: parsing, validation, get_db()
register_validate(p) ==
  /\ req[p].pc = "start"
  /\ IF RegisterParsed[req[p].form].verdict # "ok"
       THEN RegisterReturn(p, Response(<<Msg(RegisterParsed[req[p].form].verdict, "danger")>>, "users.register"), "none")
       ELSE IF req[p].f = "connect"
         THEN RegisterReturn(p, Response(<<Msg("Database error.", "danger")>>, "users.register"), "none")
         ELSE /\ req' = [req EXCEPT ![p].pc = "select"]
              /\ UNCHANGED <<resp, conn>>
  /\ UNCHANGED <<UserProfile, UserActivityLog, session, now, prodVars>>

\* lines 119-124: the existence check
register_select(p) ==
  /\ req[p].pc = "select"
  /\ IF req[p].f = "s1"
       THEN RegisterReturn(p, Response(<<ErrorMsg>>, "users.register"), "open")
       ELSE IF SelectUser(UserProfile, RegisterParsed[req[p].form].fields.email) # {}
         THEN RegisterReturn(p, Response(<<Msg("Email already registered.", "danger")>>, "users.register"), "closed")
         ELSE /\ req' = [req EXCEPT ![p].pc = "insert"]
              /\ UNCHANGED <<resp, conn>>
  /\ UNCHANGED <<UserProfile, UserActivityLog, session, now, prodVars>>

\* lines 127-132: the INSERT into UserProfile
register_insert(p) ==
  /\ req[p].pc = "insert"
  /\ IF req[p].f = "s2"
       THEN /\ RegisterReturn(p, Response(<<ErrorMsg>>, "users.register"), "open")
            /\ UNCHANGED UserProfile
       ELSE /\ UserProfile' = RegisterInsertRow(UserProfile, req[p].form, now)
            /\ req' = [req EXCEPT ![p].pc = "log"]
            /\ UNCHANGED <<resp, conn>>
  /\ UNCHANGED <<UserActivityLog, session, now, prodVars>>

\* lines 135-142: the INSERT into UserActivityLog, close, flash, redirect
register_log(p) ==
  /\ req[p].pc = "log"
  /\ IF req[p].f = "s3"
       THEN /\ RegisterReturn(p, Response(<<ErrorMsg>>, "users.register"), "open")
            /\ UNCHANGED UserActivityLog
       ELSE /\ UserActivityLog' = InsertLog(UserActivityLog, RegisterParsed[req[p].form].fields.email, "Registered", now)
            /\ RegisterReturn(p, Response(<<Msg("Account created! Please log in.", "success")>>, "users.login"), "closed")
  /\ UNCHANGED <<UserProfile, session, now, prodVars>>

\* <<form, fault>> of the concurrent requests
RaceRequests ==
  ({RegBase, [RegBase EXCEPT !.email = E_A], [RegBase EXCEPT !.email = E_bad]} \X {"none"})
    \cup ({RegBase} \X {"connect", "s1", "s2", "s3"})

InitRace ==
  /\ InitUsers
  /\ product = <<>>
  /\ orders = <<>>
  /\ order_items = <<>>
  /\ tables = {"UserProfile", "UserActivityLog", "product", "pricehistory"}
  /\ ret = [op |-> "none", kind |-> "none", rows |-> <<>>, total |-> 0, flag |-> FALSE]
  /\ conn = "none"
  /\ now = 0
  /\ req \in {[p \in Requests |-> [pc |-> "start", form |-> r[p][1], f |-> r[p][2]]] :
                r \in [Requests -> RaceRequests]}

NextRace ==
  \/ \E p \in Requests : register_validate(p)
  \/ \E p \in Requests : register_select(p)
  \/ \E p \in Requests : register_insert(p)
  \/ \E p \in Requests : register_log(p)

SpecRace == InitRace /\ [][NextRace]_vars

----------------------------------------------------------------------------
(* Properties of concurrent registration *)

\* C16: the existence check and the INSERT of register are not atomic: a
\* request that has passed its check inserts its row whatever has been
\* inserted since, so that when two requests for the same normalised email
\* both run the SELECT before either runs the INSERT, both insert and
\* UserProfile holds the email twice.
C16_InsertWithoutRecheck ==
  [][\A p \in Requests :
       (req[p].pc = "insert" /\ req'[p].pc = "log")
         => /\ Len(UserProfile') = Len(UserProfile) + 1
            /\ UserProfile'[Len(UserProfile')].Email = Folded[req[p].form.email]]_vars

\* both requests were answered 'Account created!' and UserProfile holds two
\* rows with the same Email
C16_Witness ==
  /\ \A p \in Requests : req[p].pc = "done" /\ req[p].f = "none"
  /\ Len(UserProfile) = 2
  /\ UserProfile[1].Email = UserProfile[2].Email
  /\ Len(UserActivityLog) = 2
  /\ resp = Response(<<Msg("Account created! Please log in.", "success")>>, "users.login")

----------------------------------------------------------------------------
(* GET /users/api/metrics *)

CountStatus(tbl, status) == Cardinality({i \in 1..Len(tbl) : tbl[i].Status = status})

metricsResult_NoDecorator(s, f) ==
  IF f = "connect" THEN [resp |-> JsonError, conn |-> "none"]
  ELSE IF f \in {"s1", "s2", "s3"} THEN [resp |-> JsonError, conn |-> "open"]
  ELSE [resp |-> Json([total |-> Len(UserProfile), active |-> CountStatus(UserProfile, "active"), disabled |-> CountStatus(UserProfile, "disabled")], 200), conn |-> "closed"]

\* The effect of one metrics GET of browser s: the three counts, or the
\* redirect of login_required; f names the SELECT that raises
metricsResult(s, f) ==
  IF ~LoggedIn(s) THEN [resp |-> LoginRequiredResponse, conn |-> "none"]
  \* get_db() returned None: conn.cursor() raises
  ELSE IF f = "connect" THEN [resp |-> JsonError, conn |-> "none"]
  ELSE IF f \in {"s1", "s2", "s3"} THEN [resp |-> JsonError, conn |-> "open"]
  ELSE [resp |-> Json([total |-> Len(UserProfile), active |-> CountStatus(UserProfile, "active"), disabled |-> CountStatus(UserProfile, "disabled")], 200), conn |-> "closed"]

metrics(s, f) ==
  LET out == metricsResult(s, f)
  IN /\ resp' = out.resp
     /\ conn' = out.conn
     /\ UNCHANGED <<UserProfile, UserActivityLog, session, now, prodVars, req>>

----------------------------------------------------------------------------
(* Two browsers on the accounts of ChatForms: every handler of the blueprint *)
(* that reads or writes the session, from either browser                     *)

InitSessions ==
  /\ UserProfile \in {Registered(<<>>, ChatForms[1], 0), Registered(Registered(<<>>, ChatForms[1], 0), ChatForms[2], 0)}
  /\ UserActivityLog = [i \in 1..Len(UserProfile) |->
                          [Email |-> UserProfile[i].Email, ActivityType |-> "Registered",
                           ActivityDescription |-> None,
                           ActivityDate |-> UserProfile[i].TimeOfCreation]]
  /\ session = [s \in Browsers |-> EmptySession]
  /\ resp = Response(<<>>, "users.login")
  /\ InitProductsIdle
  /\ now = 1

\* <<email, password, fault>> of the logins of either browser
SessionLogins ==
  {<<E_a, P_1, "none">>, <<E_a, P_1, "s2">>, <<E_A, P_2, "none">>, <<E_z, P_2, "none">>}

NextSessions ==
  \/ register(RegBase, "none")
  \/ \E s \in Browsers, r \in SessionLogins : login(s, r[1], r[2], r[3])
  \/ \E s \in Browsers : profile(s, ProfBase, "none")
  \/ \E s \in Browsers : deactivate(s, "none")
  \/ \E s \in Browsers : logout(s, "none")
  \/ \E s \in Browsers, f \in {"none", "s1"} : metrics(s, f)
  \/ \E s \in Browsers : chat_analyze(s, Q_blank, "none")

SpecSessions == InitSessions /\ [][NextSessions]_vars

----------------------------------------------------------------------------
(* Properties of sessions *)

\* a login of browser s, as request r, that found the row of its email
\* active and its password matching, and left that email in the session
SuccessfulLogin(s, r) ==
  /\ login(s, r[1], r[2], r[3])
  /\ SelectUser(UserProfile, LoginEmail[r[1]]) # {}
  /\ check_password_hash(FetchUser(UserProfile, LoginEmail[r[1]]).UPassword, r[2])
  /\ FetchUser(UserProfile, LoginEmail[r[1]]).Status = "active"
  /\ session'[s]["user_email"] = LoginEmail[r[1]]

\* a step that gives the session of browser s a user_email it did not hold
SetsUserEmail(s) ==
  /\ "user_email" \in DOMAIN session'[s]
  /\ LoggedIn(s) => session'[s]["user_email"] # session[s]["user_email"]

\* every login_required handler answers a session without user_email with
\* the redirect to login, without a connection and without a change
RedirectedWithoutStatement(s) ==
  /\ \A r \in ProfileRequests :
       LET out == profileResult(s, r[1], r[2])
       IN out.resp = LoginRequiredResponse /\ out.conn = "none"
          /\ out.UserProfile = UserProfile /\ out.UserActivityLog = UserActivityLog
  /\ \A f \in {"none", "connect", "s1", "s2"} :
       LET out == deactivateResult(s, f)
       IN out.resp = LoginRequiredResponse /\ out.conn = "none" /\ out.session = session[s]
          /\ out.UserProfile = UserProfile /\ out.UserActivityLog = UserActivityLog
  /\ \A f \in {"none", "connect", "s1"} :
       LET out == logoutResult(s, f)
       IN out.resp = LoginRequiredResponse /\ out.conn = "none" /\ out.session = session[s]
          /\ out.UserActivityLog = UserActivityLog
  /\ \A f \in {"none", "connect", "s1", "s2", "s3"} :
       LET out == metricsResult(s, f)
       IN out.resp = LoginRequiredResponse /\ out.conn = "none"
  /\ \A r \in ChatRequests :
       LET out == chatResult(s, r[1], r[2])
       IN out.resp = LoginRequiredResponse /\ out.conn = "none" /\ out.executed = <<>>
          /\ out.UserActivityLog = UserActivityLog

\* C17: the session of a browser gets a user_email only in a login step in
\* which the UserProfile row of that email existed, the submitted password
\* matched its hash and its Status was 'active'; no step of register,
\* profile, deactivate, logout or an API endpoint gives a session a
\* user_email; and a session without user_email is redirected to login by
\* every login_required route without any database statement.
C17_OnlyLoginSetsUserEmail ==
  /\ [][\A s \in Browsers : SetsUserEmail(s) => \E r \in SessionLogins : SuccessfulLogin(s, r)]_vars
  /\ [](\A s \in Browsers : ~LoggedIn(s) => RedirectedWithoutStatement(s))

\* browser 1 is logged in as a@b.io while browser 2, which has no
\* user_email, has just been redirected
C17_Witness ==
  /\ LoggedIn(1)
  /\ session[1]["user_email"] = Folded[E_a]
  /\ ~LoggedIn(2)
  /\ resp = LoginRequiredResponse
  /\ conn = "none"

\* the session of browser t holds the Email of a disabled account
HoldsDisabledAccount(t) ==
  /\ "user_email" \in DOMAIN session[t]
  /\ \E i \in 1..Len(UserProfile) :
       UserProfile[i].Email = session[t]["user_email"] /\ UserProfile[i].Status = "disabled"

\* browser t is served by the login_required routes: none of them answers
\* with the redirect of the decorator
PassesLoginRequired(t) ==
  /\ metricsResult(t, "none").resp = Json([total |-> Len(UserProfile), active |-> CountStatus(UserProfile, "active"), disabled |-> CountStatus(UserProfile, "disabled")], 200)
  /\ \A r \in ProfileRequests : profileResult(t, r[1], r[2]).resp # LoginRequiredResponse
  /\ \A r \in ChatRequests : chatResult(t, r[1], r[2]).resp # LoginRequiredResponse
  /\ \A f \in {"none", "connect", "s1", "s2"} : deactivateResult(t, f).resp # LoginRequiredResponse
  /\ \A f \in {"none", "connect", "s1"} : logoutResult(t, f).resp # LoginRequiredResponse

\* C18: a deactivate request clears the session of the browser that issued
\* it and leaves the session of every other browser as it was, also when
\* that session holds the same user_email; and a session that holds the
\* user_email of a disabled account is still served by every login_required
\* route, because the decorator looks at the session only.
C18_DeactivateClearsOwnSessionOnly ==
  /\ [][\A s \in Browsers :
          ("user_email" \in DOMAIN session[s] /\ deactivate(s, "none"))
            => /\ session'[s] = EmptySession
               /\ \A t \in Browsers \ {s} : session'[t] = session[t]]_vars
  /\ [](\A t \in Browsers : HoldsDisabledAccount(t) => PassesLoginRequired(t))

\* browser 1 has deactivated a@b.io and lost its session; browser 2, logged
\* in as a@b.io before, has just been served the metrics of the disabled
\* account's dashboard
C18_Witness ==
  /\ session[1] = EmptySession
  /\ HoldsDisabledAccount(2)
  /\ session[2]["user_email"] = Folded[E_a]
  /\ \E i \in 1..Len(UserActivityLog) : UserActivityLog[i].ActivityType = "Deactivated"
  /\ resp = Json([total |-> Len(UserProfile), active |-> CountStatus(UserProfile, "active"), disabled |-> 1], 200)

====
